---------------------------- MODULE Spec2Model ----------------------------
(***************************************************************************)
(* Crawl -> aggregate -> extract pipeline of the scraper service.          *)
(*                                                                         *)
(*   routes/scraper.py        crawl_and_extract (the POST /crawl handler)  *)
(*   helpers/scraperHelper.py deep_crawl_website, _is_valid_url,           *)
(*                            _should_skip_url                             *)
(*   helpers/geminiHelper.py  get_gemini_client, extract_clinic_data,      *)
(*                            _prepare_content_for_extraction, ClinicData  *)
(*                                                                         *)
(* Python strings are modelled as sequences of one-character strings, so   *)
(* that len(), slicing, strip() and concatenation are computed and not     *)
(* assumed.  None is the model value NoneVal.                              *)
(***************************************************************************)
EXTENDS Integers, Sequences, FiniteSets, TLC

(***************************************************************************)
(* Size limits.  The code fixes max_chars_per_page = 50000 and             *)
(* max_total_chars = 500000 (geminiHelper.py:137-138) and the crawl's      *)
(* minimum content length 100 (scraperHelper.py:135).  The same code is    *)
(* checked here at a reduced scale: the limits keep their order            *)
(* (a single formatted page always fits into max_total_chars, a few pages  *)
(* do not), and every property below is stated in terms of the names, not  *)
(* of the values.                                                          *)
(***************************************************************************)
max_chars_per_page == 2

max_total_chars == 64

MaxPages == 3

NoneVal == "None"

(***************************************************************************)
(* String helpers (Python str semantics on sequences of characters).       *)
(***************************************************************************)
Whitespace == {" ", "\t", "\n", "\r"}

RECURSIVE lstrip(_)
lstrip(s) ==
    IF s # <<>> /\ Head(s) \in Whitespace THEN lstrip(Tail(s)) ELSE s

RECURSIVE rstrip(_)
rstrip(s) ==
    IF s # <<>> /\ s[Len(s)] \in Whitespace
    THEN rstrip(SubSeq(s, 1, Len(s) - 1))
    ELSE s

\* str.strip(): leading and trailing whitespace removed
strip(s) == rstrip(lstrip(s))

\* "".join(list)
RECURSIVE join(_)
join(parts) ==
    IF parts = <<>> THEN <<>> ELSE Head(parts) \o join(Tail(parts))

\* n copies of character c
Rep(c, n) == [i \in 1..n |-> c]

\* dict.get(key, default)
DictGet(d, key, default) == IF key \in DOMAIN d THEN d[key] ELSE default

(***************************************************************************)
(* Literals of _prepare_content_for_extraction.                            *)
(***************************************************************************)
\* "Unknown URL"
UnknownURL == <<"U","n","k","n","o","w","n"," ","U","R","L">>

\* "\n...[content truncated]"
TruncationMarker ==
    <<"\n",".",".",".","[","c","o","n","t","e","n","t"," ",
      "t","r","u","n","c","a","t","e","d","]">>

\* "--- PAGE: "
PagePrefix == <<"-","-","-"," ","P","A","G","E",":"," ">>

\* " ---\n"
PageSuffix == <<" ","-","-","-","\n">>

\* "\n\n"
PageSeparator == <<"\n","\n">>

(***************************************************************************)
(* _prepare_content_for_extraction, statement by statement.                *)
(***************************************************************************)
\* variant: emptiness tested without strip()
IsEmptyPage_NoStrip(content) == content = <<>>

\* if not content.strip(): continue
IsEmptyPage(content) == strip(content) = <<>>

\* variant: slice one character too long
TruncatePage_OffByOne(content) ==
    IF Len(content) > max_chars_per_page
    THEN SubSeq(content, 1, max_chars_per_page + 1) \o TruncationMarker
    ELSE content

\* if len(content) > max_chars_per_page: content = content[:max] + marker
TruncatePage(content) ==
    IF Len(content) > max_chars_per_page
    THEN SubSeq(content, 1, max_chars_per_page) \o TruncationMarker
    ELSE content

\* page_text = f"--- PAGE: {url} ---\n{content}\n\n"
PageText(url, content) ==
    PagePrefix \o url \o PageSuffix \o content \o PageSeparator

\* variant: the limit tested on the running count alone
ExceedsTotal_Before(total_chars, page_text) ==
    total_chars > max_total_chars

\* if total_chars + len(page_text) > max_total_chars: break
ExceedsTotal(total_chars, page_text) ==
    total_chars + Len(page_text) > max_total_chars

\* variant: continue instead of break when the limit is hit
RECURSIVE PrepareLoop_Continue(_, _, _, _)
PrepareLoop_Continue(pages_data, i, formatted_pages, total_chars) ==
    IF i > Len(pages_data) THEN formatted_pages
    ELSE LET page == pages_data[i]
             url == DictGet(page, "url", UnknownURL)
             content == DictGet(page, "content", <<>>)
         IN  IF IsEmptyPage(content)
             THEN PrepareLoop_Continue(pages_data, i + 1, formatted_pages,
                                       total_chars)
             ELSE LET page_text == PageText(url, TruncatePage(content))
                  IN  IF ExceedsTotal(total_chars, page_text)
                      THEN PrepareLoop_Continue(pages_data, i + 1,
                                                formatted_pages, total_chars)
                      ELSE PrepareLoop_Continue(pages_data, i + 1,
                                       Append(formatted_pages, page_text),
                                       total_chars + Len(page_text))

\* the for loop over pages_data from index i on; yields formatted_pages
RECURSIVE PrepareLoop(_, _, _, _)
PrepareLoop(pages_data, i, formatted_pages, total_chars) ==
    IF i > Len(pages_data) THEN formatted_pages
    ELSE LET page == pages_data[i]
             url == DictGet(page, "url", UnknownURL)
             content == DictGet(page, "content", <<>>)
         IN  IF IsEmptyPage(content)
             THEN PrepareLoop(pages_data, i + 1, formatted_pages, total_chars)
             ELSE LET page_text == PageText(url, TruncatePage(content))
                  IN  IF ExceedsTotal(total_chars, page_text)
                      THEN formatted_pages
                      ELSE PrepareLoop(pages_data, i + 1,
                                       Append(formatted_pages, page_text),
                                       total_chars + Len(page_text))

\* formatted_pages as the loop leaves it
FormattedPages(pages_data) == PrepareLoop(pages_data, 1, <<>>, 0)

\* return "".join(formatted_pages)
prepare_content_for_extraction(pages_data) == join(FormattedPages(pages_data))

(***************************************************************************)
(* Inputs of the aggregator: pages as the dicts the function accepts.      *)
(***************************************************************************)
MaxContentLen == max_chars_per_page + 1

Urls == { <<"u">>, <<"v","w">> }

Contents ==
    {Rep(" ", n) : n \in 0..2}
    \cup {Rep("a", n) : n \in 1..MaxContentLen}
    \cup { <<" ","a">>, <<"a","\n">>, <<"\t","a","a"," ">> }

Page(url, content) == [url |-> url, content |-> content]

AggPages ==
    {Page(u, c) : u \in Urls, c \in Contents}
    \cup { [content |-> <<"a">>], [url |-> <<"u">>] }

SeqsUpTo(S, n) == UNION {[1..k -> S] : k \in 0..n}

(***************************************************************************)
(* scraperHelper.py: URL checks and the processing of the crawl results.   *)
(***************************************************************************)
\* the scaled minimum trimmed content length of a crawled page (100 in the code)
MinCrawlContentLen == 2

UpperCase == <<"A","B","C","D","E","F","G","H","I","J","K","L","M",
               "N","O","P","Q","R","S","T","U","V","W","X","Y","Z">>

LowerCase == <<"a","b","c","d","e","f","g","h","i","j","k","l","m",
               "n","o","p","q","r","s","t","u","v","w","x","y","z">>

\* str.lower()
lower(s) ==
    [i \in 1..Len(s) |->
        IF \E k \in 1..26 : UpperCase[k] = s[i]
        THEN LowerCase[CHOOSE k \in 1..26 : UpperCase[k] = s[i]]
        ELSE s[i]]

\* pattern in s
Contains(pattern, s) ==
    \E i \in 1..(Len(s) - Len(pattern) + 1) :
        SubSeq(s, i, i + Len(pattern) - 1) = pattern

skip_patterns ==
    << <<"/","f","e","e","d","/">>,
       <<"/","r","s","s","/">>,
       <<"/","a","t","o","m","/">>,
       <<"r","o","b","o","t","s",".","t","x","t">>,
       <<"s","i","t","e","m","a","p",".","x","m","l">>,
       <<"/","w","p","-","j","s","o","n","/">>,
       <<"/","a","p","i","/">>,
       <<"/","d","o","w","n","l","o","a","d","/">> >>

should_skip_url(url) ==
    \E k \in 1..Len(skip_patterns) : Contains(skip_patterns[k], lower(url))

Digits == {"0","1","2","3","4","5","6","7","8","9"}

IsDigit(c) == c \in Digits

IsAlpha(c) == \E k \in 1..26 : c = UpperCase[k] \/ c = LowerCase[k]

IsAlnum(c) == IsAlpha(c) \/ IsDigit(c)

\* s.startswith(prefix)
StartsWith(s, prefix) ==
    Len(s) >= Len(prefix) /\ SubSeq(s, 1, Len(prefix)) = prefix

\* s[n:]
DropFirst(s, n) == SubSeq(s, n + 1, Len(s))

\* length of the longest prefix of s made of characters of `chars`
PrefixLen(s, chars) ==
    IF \A i \in 1..Len(s) : s[i] \in chars THEN Len(s)
    ELSE (CHOOSE i \in 1..Len(s) :
              s[i] \notin chars /\ \A j \in 1..(i - 1) : s[j] \in chars) - 1

\* length of the longest prefix of s with no character of `stops`
PrefixLenUntil(s, stops) ==
    IF \A i \in 1..Len(s) : s[i] \notin stops THEN Len(s)
    ELSE (CHOOSE i \in 1..Len(s) :
              s[i] \in stops /\ \A j \in 1..(i - 1) : s[j] \notin stops) - 1

\* s.split(sep) for a one-character separator
RECURSIVE Split(_, _)
Split(s, sep) ==
    LET n == PrefixLenUntil(s, {sep})
    IN  IF n = Len(s) THEN <<s>>
        ELSE <<SubSeq(s, 1, n)>> \o Split(DropFirst(s, n + 1), sep)

\* urlparse(url).scheme: the text before the first ":", when it is a letter
\* followed by letters, digits, "+", "-" or "."; lower-cased
UrlScheme(url) ==
    LET n == PrefixLenUntil(url, {":"})
        head == SubSeq(url, 1, n)
    IN  IF /\ n < Len(url)
           /\ n > 0
           /\ IsAlpha(head[1])
           /\ \A i \in 1..n : IsAlnum(head[i]) \/ head[i] \in {"+", "-", "."}
        THEN lower(head)
        ELSE <<>>

\* urlparse(url).netloc: after "scheme:" (or from the start without a
\* scheme), the text between "//" and the next "/", "?" or "#"
UrlNetloc(url) ==
    LET rest == IF UrlScheme(url) = <<>> THEN url
                ELSE DropFirst(url, Len(UrlScheme(url)) + 1)
    IN  IF StartsWith(rest, <<"/","/">>)
        THEN LET after == DropFirst(rest, 2)
             IN  SubSeq(after, 1,
                        PrefixLenUntil(after, {"/", "?", "#"}))
        ELSE <<>>

\* result = urlparse(url); return all([result.scheme, result.netloc])
is_valid_url(url) == UrlScheme(url) # <<>> /\ UrlNetloc(url) # <<>>

\* content = result.markdown if result.markdown else result.cleaned_html
\* (None and "" are both falsy and are both the empty sequence here)
ResultContent(result) ==
    IF result.markdown # <<>> THEN result.markdown ELSE result.cleaned_html

\* if not content or len(content.strip()) < 100: continue
InsufficientContent(content) ==
    content = <<>> \/ Len(strip(content)) < MinCrawlContentLen

\* variant: the loop stops one page late
ReachedMaxPages_After(max_pages, page_count) ==
    max_pages # 0 /\ page_count > max_pages

\* if max_pages and page_count >= max_pages: break   (None is falsy like 0)
ReachedMaxPages(max_pages, page_count) ==
    max_pages # 0 /\ page_count >= max_pages

\* the for loop over results_list from index i on; yields pages_data
RECURSIVE ProcessResults(_, _, _, _)
ProcessResults(results_list, i, max_pages, pages_data) ==
    IF i > Len(results_list) THEN pages_data
    ELSE IF ReachedMaxPages(max_pages, Len(pages_data)) THEN pages_data
    ELSE LET result == results_list[i]
         IN  IF ~result.success
             THEN ProcessResults(results_list, i + 1, max_pages, pages_data)
             ELSE IF should_skip_url(result.url)
             THEN ProcessResults(results_list, i + 1, max_pages, pages_data)
             ELSE IF InsufficientContent(ResultContent(result))
             THEN ProcessResults(results_list, i + 1, max_pages, pages_data)
             ELSE ProcessResults(results_list, i + 1, max_pages,
                      Append(pages_data,
                             [url |-> result.url,
                              content |-> ResultContent(result)]))

\* results_list = results if isinstance(results, list) else [results]
ResultsList(returned) ==
    IF returned.kind = "list" THEN returned.results ELSE <<returned.result>>

\* what deep_crawl_website returns once crawler.arun has returned
deep_crawl_pages(returned, max_pages) ==
    ProcessResults(ResultsList(returned), 1, max_pages, <<>>)

(***************************************************************************)
(* geminiHelper.py: the ClinicData schema, the client and the extraction.  *)
(***************************************************************************)
NoneObj == [kind |-> "None"]

BusinessHours ==
    [monday |-> "", tuesday |-> "", wednesday |-> "", thursday |-> "",
     friday |-> "", saturday |-> "", sunday |-> ""]

ClinicDataFields ==
    {"name", "phoneNumber", "address", "city", "state", "pincode",
     "website", "email", "businessHours", "is_24_7", "holidayClosures",
     "veterinarians", "practiceManager", "headTechnician",
     "servicesOffered", "servicesNotOffered", "speciesTreated"}

\* the declared type of each field
ClinicDataFieldType(f) ==
    CASE f = "businessHours" -> "BusinessHours"
      [] f = "is_24_7" -> "bool"
      [] f = "veterinarians" -> "list"
      [] f \in {"servicesOffered", "speciesTreated"} -> "list"
      [] OTHER -> "str"

\* the declared default of each field
ClinicDataDefault(f) ==
    CASE f = "businessHours" -> BusinessHours
      [] f = "is_24_7" -> FALSE
      [] f = "veterinarians" -> <<>>
      [] f \in {"servicesOffered", "speciesTreated"} -> <<>>
      [] OTHER -> ""

\* ClinicData(**kwargs): the fields given, the others at their defaults
ClinicData(kwargs) ==
    [kind |-> "ClinicData",
     fields |-> [f \in ClinicDataFields |->
                    IF f \in DOMAIN kwargs THEN kwargs[f].v
                    ELSE ClinicDataDefault(f)]]

\* a JSON value with its JSON type
JStr(v) == [t |-> "str", v |-> v]

JBool(v) == [t |-> "bool", v |-> v]

JList(v) == [t |-> "list", v |-> v]

JNull == [t |-> "null", v |-> NoneVal]

\* response.parsed: the response text validated against response_schema
\* (ClinicData); None when the text is no JSON or does not conform
response_parsed(text) ==
    IF /\ text.json
       /\ \A f \in DOMAIN text.obj :
             f \in ClinicDataFields => text.obj[f].t = ClinicDataFieldType(f)
    THEN ClinicData([f \in DOMAIN text.obj \cap ClinicDataFields |->
                        text.obj[f]])
    ELSE NoneObj

\* variant: the client is built without looking at the key
get_gemini_client_Unchecked(key) == [kind |-> "client", key |-> key]

\* api_key = settings.gemini_api_key; if not api_key: raise ValueError
get_gemini_client(api_key) ==
    IF api_key = NoneVal \/ api_key = ""
    THEN [kind |-> "raised", exc |-> "ValueError"]
    ELSE [kind |-> "client"]

\* the try/except around the generate_content call: what extract_clinic_data
\* hands back for each outcome of the call
extract_clinic_data_result(outcome) ==
    IF outcome.kind = "raised"
    THEN [kind |-> "returned", value |-> ClinicData(<<>>)]
    ELSE [kind |-> "returned", value |-> response_parsed(outcome.text)]

(***************************************************************************)
(* routes/scraper.py: the request, the responses and the handler.          *)
(***************************************************************************)
\* ScrapeResponse(success, url, pages_crawled, data, error)
ScrapeResponse(success, url, pages_crawled, data, error) ==
    [kind |-> "envelope", success |-> success, url |-> url,
     pages_crawled |-> pages_crawled, data |-> data, error |-> error]

\* raise HTTPException(status_code, detail): the request ends with a fault
HTTPException(status_code, detail) ==
    [kind |-> "fault", status_code |-> status_code, detail |-> detail]

NoResponse == [kind |-> "none"]

\* the characters the host alternatives of url_pattern are made of
HostChars ==
    {UpperCase[k] : k \in 1..26} \cup {LowerCase[k] : k \in 1..26}
    \cup Digits \cup {"-", "."}

\* (?:[A-Z0-9](?:[A-Z0-9-]{0,61}[A-Z0-9])?\.)  without the dot
IsDomainLabel(l) ==
    /\ Len(l) >= 1
    /\ Len(l) <= 63
    /\ IsAlnum(l[1])
    /\ IsAlnum(l[Len(l)])
    /\ \A i \in 1..Len(l) : IsAlnum(l[i]) \/ l[i] = "-"

\* [A-Z]{2,6}
IsTopLevel(l) ==
    /\ Len(l) >= 2
    /\ Len(l) <= 6
    /\ \A i \in 1..Len(l) : IsAlpha(l[i])

\* (?:label\.)+[A-Z]{2,6}\.?
IsDomainName(h) ==
    LET name == IF h # <<>> /\ h[Len(h)] = "."
                THEN SubSeq(h, 1, Len(h) - 1) ELSE h
        parts == Split(name, ".")
    IN  /\ Len(parts) >= 2
        /\ IsTopLevel(parts[Len(parts)])
        /\ \A i \in 1..(Len(parts) - 1) : IsDomainLabel(parts[i])

\* \d{1,3}\.\d{1,3}\.\d{1,3}\.\d{1,3}
IsIPv4(h) ==
    LET parts == Split(h, ".")
    IN  /\ Len(parts) = 4
        /\ \A i \in 1..4 :
              /\ Len(parts[i]) \in 1..3
              /\ \A j \in 1..Len(parts[i]) : IsDigit(parts[i][j])

\* $ : the end of the string, or just before a final newline
AtEnd(s) == s = <<>> \/ s = <<"\n">>

\* (?:/?|[/?]\S+)$
IsUrlTail(s) ==
    \/ AtEnd(s)
    \/ StartsWith(s, <<"/">>) /\ AtEnd(DropFirst(s, 1))
    \/ /\ s # <<>>
       /\ s[1] \in {"/", "?"}
       /\ LET rest == DropFirst(s, 1)
              n == PrefixLenUntil(rest, Whitespace)
          IN  n >= 1 /\ AtEnd(DropFirst(rest, n))

\* (?::\d+)?(?:/?|[/?]\S+)$
IsPortAndTail(s) ==
    IF StartsWith(s, <<":">>)
    THEN LET n == PrefixLen(DropFirst(s, 1), Digits)
         IN  n >= 1 /\ IsUrlTail(DropFirst(s, n + 1))
    ELSE IsUrlTail(s)

\* variant: the validator accepts every string
validate_url_AcceptAll(v) == Len(v) >= 0

\* ScrapeRequest.validate_url: url_pattern.match(v), re.IGNORECASE
\* ^https?://(?:domain|localhost|IPv4)(?::\d+)?(?:/?|[/?]\S+)$
validate_url(v) ==
    LET lv == lower(v)
        after == IF StartsWith(lv, <<"h","t","t","p",":","/","/">>)
                 THEN DropFirst(lv, 7)
                 ELSE IF StartsWith(lv, <<"h","t","t","p","s",":","/","/">>)
                 THEN DropFirst(lv, 8)
                 ELSE <<"\n","\n">>
        n == PrefixLen(after, HostChars)
        host == SubSeq(after, 1, n)
    IN  /\ \/ StartsWith(lv, <<"h","t","t","p",":","/","/">>)
           \/ StartsWith(lv, <<"h","t","t","p","s",":","/","/">>)
        /\ \/ IsDomainName(host)
           \/ host = <<"l","o","c","a","l","h","o","s","t">>
           \/ IsIPv4(host)
        /\ IsPortAndTail(DropFirst(after, n))

\* the attributes of clinic_data the handler reads before it builds the
\* successful response (scraper.py:148-157)
RouteReadAttrs ==
    {"name", "phone", "email", "address", "business_hours", "services",
     "staff", "faqs", "policies", "additional_info"}

\* obj.attr exists; otherwise reading it raises AttributeError
HasAttr(obj, attr) == obj.kind = "ClinicData" /\ attr \in DOMAIN obj.fields

\* variant: the crawl failure reported in an envelope
CrawlFailureResponse_Envelope(request, exc) ==
    ScrapeResponse(FALSE, request.url, 0, NoneObj, "Crawling failed")

\* except ValueError -> 400; except Exception -> 500   (scraper.py:110-115)
CrawlFailureResponse(request, exc) ==
    IF exc = "ValueError"
    THEN HTTPException(400, "Invalid URL")
    ELSE HTTPException(500, "Crawling failed")

\* variant: empty crawl reported as a fault
NoContentResponse_Fault(request) ==
    HTTPException(404, "No content found on the website")

\* variant: the empty-crawl envelope without its error message
NoContentResponse_NoError(request) ==
    ScrapeResponse(FALSE, request.url, 0, NoneObj, NoneVal)

\* if not pages_data: return ScrapeResponse(success=False, ..., 0, None, ...)
NoContentResponse(request) ==
    ScrapeResponse(FALSE, request.url, 0, NoneObj,
                   "No content found on the website")

\* steps 2 and 3 of the handler once extract_clinic_data has ended with
\* `result`: the except branch, the reads of clinic_data, the response
ExtractionResponse(request, crawled, result) ==
    IF result.kind = "raised"
    THEN ScrapeResponse(FALSE, request.url, Len(crawled), NoneObj,
                        "Data extraction failed")
    ELSE IF \E attr \in RouteReadAttrs : ~HasAttr(result.value, attr)
    THEN HTTPException(500, "Unexpected error")
    ELSE ScrapeResponse(TRUE, request.url, Len(crawled), result.value,
                        NoneVal)

(***************************************************************************)
(* Inputs of the handler.                                                  *)
(***************************************************************************)
MaxResults == 3

MaxPagesChoice == 2

\* seed URLs: https://clinic.com, http://localhost:8080/a, not-a-url,
\* ftp://clinic.com, https://clinic.example (top-level name too long),
\* "https://clinic.com/a b", "http:///x"
SeedUrls ==
    { <<"h","t","t","p","s",":","/","/","c","l","i","n","i","c",".","c","o","m">>,
      <<"h","t","t","p",":","/","/","l","o","c","a","l","h","o","s","t",":","8","0","8","0","/","a">>,
      <<"n","o","t","-","a","-","u","r","l">>,
      <<"f","t","p",":","/","/","c","l","i","n","i","c",".","c","o","m">>,
      <<"h","t","t","p","s",":","/","/","c","l","i","n","i","c",".","e","x","a","m","p","l","e">>,
      <<"h","t","t","p","s",":","/","/","c","l","i","n","i","c",".","c","o","m","/","a"," ","b">>,
      <<"h","t","t","p",":","/","/","/","x">> }

\* max_pages: None (0 here, both falsy) or a positive limit
Requests ==
    {[url |-> u, max_pages |-> m] : u \in SeedUrls, m \in 0..MaxPagesChoice}

ShortText == Rep("a", MinCrawlContentLen)

LongText == Rep("a", MaxContentLen)

CrawlResult(success, url, markdown, cleaned_html) ==
    [success |-> success, url |-> url, markdown |-> markdown,
     cleaned_html |-> cleaned_html]

CrawlResultSet ==
    {CrawlResult(TRUE, u, m, <<>>) : u \in Urls, m \in {ShortText, LongText}}
    \cup { CrawlResult(FALSE, <<"u">>, ShortText, <<>>),
           CrawlResult(TRUE, <<"v","w">>, <<" ","a"," ">>, <<>>),
           CrawlResult(TRUE, <<"u">>, <<>>, ShortText),
           CrawlResult(TRUE, <<"u">>, <<>>, <<>>),
           CrawlResult(TRUE, <<"/","A","p","i","/">>, ShortText, <<>>) }

\* what crawler.arun does: raises, returns one result, returns a list
CrawlOutcomes ==
    { [kind |-> "raised", exc |-> e] : e \in {"ValueError", "Exception"} }
    \cup { [kind |-> "single", result |-> r] : r \in CrawlResultSet }
    \cup { [kind |-> "list", results |-> rs] :
              rs \in SeqsUpTo(CrawlResultSet, MaxResults) }

EmptyObject == [f \in {} |-> JNull]

ResponseTexts ==
    { [json |-> FALSE],
      [json |-> TRUE, obj |-> EmptyObject],
      [json |-> TRUE, obj |-> [name |-> JStr("Happy Paws")]],
      [json |-> TRUE, obj |-> [name |-> JStr("Happy Paws"),
                               is_24_7 |-> JBool(TRUE),
                               servicesOffered |-> JList(<<"Surgery">>)]],
      [json |-> TRUE, obj |-> [name |-> JNull]],
      [json |-> TRUE, obj |-> [is_24_7 |-> JStr("yes")]] }

\* what client.aio.models.generate_content does: raises or returns a response
ExtractionOutcomes ==
    { [kind |-> "raised"] }
    \cup { [kind |-> "response", text |-> t] : t \in ResponseTexts }

NoOutcome == [kind |-> "none"]

(***************************************************************************)
(* State.                                                                  *)
(***************************************************************************)
VARIABLES
    api_key,          \* settings.gemini_api_key
    crawler_passed,   \* whether the crawl call is handed the shared crawler
                      \* (FALSE: the call as written at scraper.py:107-109;
                      \*  TRUE: the crawler of main.py:29 is supplied)
    pc,               \* where the handler stands: idle, crawling, extracting, done
    request,          \* the ScrapeRequest being served
    crawl_outcome,    \* what the crawl call did
    pages_data,       \* the handler's pages_data
    payload,          \* combined_content sent to generate_content
    extract_outcome,  \* what generate_content did
    crawl_calls,      \* crawler.arun invocations for this request
    extract_calls,    \* generate_content invocations for this request
    response          \* what the request ended with

VARIABLES
    agg_in,      \* pages_data handed to _prepare_content_for_extraction
    agg_blocks,  \* formatted_pages when the function returns
    agg_out      \* the returned string, NoneVal before the call

VARIABLES
    ext_pages,   \* pages_data of a direct extract_clinic_data call
    ext_client,  \* its client argument
    ext_pc,      \* idle, called, awaiting, ended
    ext_payload, \* combined_content sent to generate_content
    ext_outcome, \* what generate_content did
    ext_calls,   \* generate_content invocations of the call
    ext_result   \* how the call ended: returned a value, or raised

routeVars ==
    <<pc, request, crawl_outcome, pages_data, payload, extract_outcome,
      crawl_calls, extract_calls, response>>

envVars == <<api_key, crawler_passed>>

aggVars == <<agg_in, agg_blocks, agg_out>>

extVars ==
    <<ext_pages, ext_client, ext_pc, ext_payload, ext_outcome, ext_calls,
      ext_result>>

vars == <<envVars, routeVars, aggVars, extVars>>

NoRequest == [url |-> <<>>, max_pages |-> 0]

RouteIdle ==
    /\ pc = "idle"
    /\ request = NoRequest
    /\ crawl_outcome = NoOutcome
    /\ pages_data = <<>>
    /\ payload = NoneVal
    /\ extract_outcome = NoOutcome
    /\ crawl_calls = 0
    /\ extract_calls = 0
    /\ response = NoResponse

AggIdle ==
    /\ agg_in = <<>>
    /\ agg_blocks = <<>>
    /\ agg_out = NoneVal

ExtIdle ==
    /\ ext_pages = <<>>
    /\ ext_client = NoneObj
    /\ ext_pc = "idle"
    /\ ext_payload = NoneVal
    /\ ext_outcome = NoOutcome
    /\ ext_calls = 0
    /\ ext_result = NoOutcome

(***************************************************************************)
(* The handler crawl_and_extract, one action per stretch between awaits.   *)
(***************************************************************************)
Finish(resp) ==
    /\ pc' = "done"
    /\ response' = resp

\* The request arrives: the url validator, get_gemini_client, and the call
\* of deep_crawl_website up to its await of crawler.arun.  The call names no
\* crawler although deep_crawl_website requires one (scraperHelper.py:19):
\* without it the call itself raises TypeError inside the handler's try.
Receive ==
    /\ pc = "idle"
    /\ \E req \in Requests :
        /\ request' = req
        /\ IF ~validate_url(req.url)
           THEN /\ Finish(HTTPException(422, "Invalid URL format"))
                /\ UNCHANGED <<crawl_outcome, crawl_calls>>
           ELSE IF get_gemini_client(api_key).kind = "raised"
           THEN /\ Finish(HTTPException(500,
                                        "Gemini API configuration error"))
                /\ UNCHANGED <<crawl_outcome, crawl_calls>>
           ELSE IF ~crawler_passed
           THEN /\ Finish(CrawlFailureResponse(req, "TypeError"))
                /\ crawl_outcome' = [kind |-> "raised", exc |-> "TypeError"]
                /\ UNCHANGED crawl_calls
           ELSE IF ~is_valid_url(req.url)
           THEN /\ Finish(CrawlFailureResponse(req, "ValueError"))
                /\ crawl_outcome' = [kind |-> "raised", exc |-> "ValueError"]
                /\ UNCHANGED crawl_calls
           ELSE /\ pc' = "crawling"
                /\ crawl_calls' = crawl_calls + 1
                /\ UNCHANGED <<crawl_outcome, response>>
    /\ UNCHANGED <<pages_data, payload, extract_outcome, extract_calls>>
    /\ UNCHANGED <<envVars, aggVars, extVars>>

\* crawler.arun ends: the rest of deep_crawl_website, the empty-crawl return,
\* and extract_clinic_data up to its await of generate_content.
CrawlReturns ==
    /\ pc = "crawling"
    /\ \E out \in CrawlOutcomes :
        /\ crawl_outcome' = out
        /\ IF out.kind = "raised"
           THEN /\ Finish(CrawlFailureResponse(request, out.exc))
                /\ UNCHANGED <<pages_data, payload, extract_calls>>
           ELSE LET crawled == deep_crawl_pages(out, request.max_pages)
                IN  /\ pages_data' = crawled
                    /\ IF crawled = <<>>
                       THEN /\ Finish(NoContentResponse(request))
                            /\ UNCHANGED <<payload, extract_calls>>
                       ELSE /\ payload' =
                                  prepare_content_for_extraction(crawled)
                            /\ extract_calls' = extract_calls + 1
                            /\ pc' = "extracting"
                            /\ UNCHANGED response
    /\ UNCHANGED <<request, extract_outcome, crawl_calls>>
    /\ UNCHANGED <<envVars, aggVars, extVars>>

\* variant: a failed generate_content call is issued once more
ExtractReturns_Retry ==
    /\ pc = "extracting"
    /\ \E out \in ExtractionOutcomes :
        /\ extract_outcome' = out
        /\ IF out.kind = "raised" /\ extract_calls < 2
           THEN /\ extract_calls' = extract_calls + 1
                /\ UNCHANGED <<pc, response>>
           ELSE /\ Finish(ExtractionResponse(request, pages_data,
                              extract_clinic_data_result(out)))
                /\ UNCHANGED extract_calls
    /\ UNCHANGED <<request, crawl_outcome, pages_data, payload, crawl_calls>>
    /\ UNCHANGED <<envVars, aggVars, extVars>>

\* generate_content ends: the rest of extract_clinic_data and of the handler.
ExtractReturns ==
    /\ pc = "extracting"
    /\ \E out \in ExtractionOutcomes :
        /\ extract_outcome' = out
        /\ Finish(ExtractionResponse(request, pages_data,
                                     extract_clinic_data_result(out)))
    /\ UNCHANGED <<request, crawl_outcome, pages_data, payload,
                   crawl_calls, extract_calls>>
    /\ UNCHANGED <<envVars, aggVars, extVars>>

\* the response is sent; the process goes on to serve the next request
NextRequest ==
    /\ pc = "done"
    /\ pc' = "idle"
    /\ request' = NoRequest
    /\ crawl_outcome' = NoOutcome
    /\ pages_data' = <<>>
    /\ payload' = NoneVal
    /\ extract_outcome' = NoOutcome
    /\ crawl_calls' = 0
    /\ extract_calls' = 0
    /\ response' = NoResponse
    /\ UNCHANGED <<envVars, aggVars, extVars>>

Init ==
    /\ api_key \in {NoneVal, "", "key"}
    /\ crawler_passed \in BOOLEAN
    /\ RouteIdle
    /\ AggIdle
    /\ ExtIdle

Next == Receive \/ CrawlReturns \/ ExtractReturns \/ NextRequest

Spec == Init /\ [][Next]_vars

(***************************************************************************)
(* _prepare_content_for_extraction called on its own, on any page list.    *)
(***************************************************************************)
AggInit ==
    /\ api_key = "key"
    /\ crawler_passed = TRUE
    /\ RouteIdle
    /\ ExtIdle
    /\ agg_in \in SeqsUpTo(AggPages, MaxPages)
    /\ agg_blocks = <<>>
    /\ agg_out = NoneVal

\* one call of _prepare_content_for_extraction(agg_in)
Aggregate ==
    /\ agg_out = NoneVal
    /\ agg_blocks' = FormattedPages(agg_in)
    /\ agg_out' = prepare_content_for_extraction(agg_in)
    /\ UNCHANGED <<agg_in, envVars, routeVars, extVars>>

AggNext == Aggregate

SpecAgg == AggInit /\ [][AggNext]_vars

(***************************************************************************)
(* extract_clinic_data called on its own: any page list, with or without   *)
(* a client.                                                               *)
(***************************************************************************)
ExtInit ==
    /\ api_key \in {NoneVal, "", "key"}
    /\ crawler_passed = TRUE
    /\ RouteIdle
    /\ AggIdle
    /\ ext_pages \in SeqsUpTo(AggPages, 2)
    /\ ext_client \in {NoneObj, [kind |-> "client"]}
    /\ ext_pc = "called"
    /\ ext_payload = NoneVal
    /\ ext_outcome = NoOutcome
    /\ ext_calls = 0
    /\ ext_result = NoOutcome

\* extract_clinic_data up to its await: the client, the aggregation, the call
ExtractCall ==
    /\ ext_pc = "called"
    /\ IF ext_client.kind = "None" /\ get_gemini_client(api_key).kind = "raised"
       THEN /\ ext_result' = [kind |-> "raised", exc |-> "ValueError"]
            /\ ext_pc' = "ended"
            /\ UNCHANGED <<ext_payload, ext_calls>>
       ELSE /\ ext_payload' = prepare_content_for_extraction(ext_pages)
            /\ ext_calls' = ext_calls + 1
            /\ ext_pc' = "awaiting"
            /\ UNCHANGED ext_result
    /\ UNCHANGED <<ext_pages, ext_client, ext_outcome>>
    /\ UNCHANGED <<envVars, routeVars, aggVars>>

\* generate_content ends: the return value of extract_clinic_data
ExtractEnd ==
    /\ ext_pc = "awaiting"
    /\ \E out \in ExtractionOutcomes :
        /\ ext_outcome' = out
        /\ ext_result' = extract_clinic_data_result(out)
    /\ ext_pc' = "ended"
    /\ UNCHANGED <<ext_pages, ext_client, ext_payload, ext_calls>>
    /\ UNCHANGED <<envVars, routeVars, aggVars>>

ExtNext == ExtractCall \/ ExtractEnd

SpecExtract == ExtInit /\ [][ExtNext]_vars

(***************************************************************************)
(* Properties of the aggregator (checked under SpecAgg).                   *)
(***************************************************************************)
AggReturned == agg_out # NoneVal

\* the threshold of the emptiness test: not content.strip()  <=>  len < 1
min_content_len == 1

PageUrl(page) == DictGet(page, "url", UnknownURL)

PageContent(page) == DictGet(page, "content", <<>>)

\* a page the aggregator is to skip: trimmed content shorter than the threshold
BelowThreshold(page) == Len(strip(PageContent(page))) < min_content_len

\* the pages that are not skipped, in input order
KeptPages(pages) == SelectSeq(pages, LAMBDA p : ~BelowThreshold(p))

\* a page's content as it is to appear in the payload
CutContent(c) ==
    IF Len(c) > max_chars_per_page
    THEN [i \in 1..(max_chars_per_page + Len(TruncationMarker)) |->
            IF i <= max_chars_per_page THEN c[i]
            ELSE TruncationMarker[i - max_chars_per_page]]
    ELSE c

\* the whole formatted block of a page
WholeBlock(page) ==
    PagePrefix \o PageUrl(page) \o PageSuffix
        \o CutContent(PageContent(page)) \o PageSeparator

RECURSIVE SumLen(_, _)
SumLen(blocks, k) ==
    IF k = 0 THEN 0 ELSE SumLen(blocks, k - 1) + Len(blocks[k])

\* number of leading blocks that fit: the block after them is the first whose
\* addition would exceed max_total_chars (or there is none)
FitCount(blocks) ==
    CHOOSE k \in 0..Len(blocks) :
        /\ SumLen(blocks, k) <= max_total_chars
        /\ k < Len(blocks) => SumLen(blocks, k + 1) > max_total_chars
        /\ \A j \in 0..k : SumLen(blocks, j) <= max_total_chars

ExpectedBlocks(pages) ==
    LET blocks == [i \in 1..Len(KeptPages(pages)) |->
                      WholeBlock(KeptPages(pages)[i])]
    IN  SubSeq(blocks, 1, FitCount(blocks))

\* the content part of block i, between its header and its separator
Contribution(block, page) ==
    SubSeq(block,
           Len(PagePrefix) + Len(PageUrl(page)) + Len(PageSuffix) + 1,
           Len(block) - Len(PageSeparator))

\* C5: the string returned by _prepare_content_for_extraction is never longer
\* than max_total_chars, headers and separators included.
C5_LengthBound == AggReturned => Len(agg_out) <= max_total_chars

\* C5 witness: the limit was binding: a non-empty page was dropped
C5_Witness ==
    /\ AggReturned
    /\ Len(agg_blocks) < Len(KeptPages(agg_in))
    /\ agg_out # <<>>

\* C6: every included page contributes at most max_chars_per_page characters
\* plus the truncation marker: content longer than max_chars_per_page is cut
\* to exactly max_chars_per_page characters followed by the marker, shorter
\* content is included unchanged without a marker.
C6_PerPageBound ==
    AggReturned =>
        \A i \in 1..Len(agg_blocks) :
            LET page == KeptPages(agg_in)[i]
                c == PageContent(page)
                part == Contribution(agg_blocks[i], page)
            IN  /\ Len(part) <= max_chars_per_page + Len(TruncationMarker)
                /\ Len(c) > max_chars_per_page =>
                      /\ Len(part) = max_chars_per_page + Len(TruncationMarker)
                      /\ SubSeq(part, 1, max_chars_per_page)
                            = SubSeq(c, 1, max_chars_per_page)
                      /\ SubSeq(part, max_chars_per_page + 1, Len(part))
                            = TruncationMarker
                /\ Len(c) <= max_chars_per_page => part = c

\* C6 witness: a truncated page and an untruncated page are both included
C6_Witness ==
    /\ AggReturned
    /\ \E i, j \in 1..Len(agg_blocks) :
          /\ Len(PageContent(KeptPages(agg_in)[i])) > max_chars_per_page
          /\ Len(PageContent(KeptPages(agg_in)[j])) <= max_chars_per_page

C8_PrefixConcatenation ==
    AggReturned =>
        /\ agg_blocks = ExpectedBlocks(agg_in)
        /\ agg_out = join(ExpectedBlocks(agg_in))

\* C8 witness: the second page does not fit and the third, which would have
\* fitted, is dropped with it
C8_Witness ==
    /\ AggReturned
    /\ Len(KeptPages(agg_in)) = 3
    /\ Len(agg_blocks) = 1
    /\ Len(agg_out) + Len(WholeBlock(KeptPages(agg_in)[3])) <= max_total_chars

(***************************************************************************)
(* Properties of the handler (checked under Spec).                         *)
(***************************************************************************)
Done == pc = "done"

\* deep_crawl_website returned a page list to the handler
CrawlReturned == crawl_outcome.kind \in {"single", "list"}

CrawlRaised == crawl_outcome.kind = "raised"

IsEnvelope == response.kind = "envelope"

\* the record generate_content's response parses to, when it conforms
ConformingResponse ==
    /\ extract_outcome.kind = "response"
    /\ response_parsed(extract_outcome.text).kind = "ClinicData"

C3_NoContentEnvelope ==
    (Done /\ CrawlReturned /\ pages_data = <<>>)
    => /\ IsEnvelope
       /\ response.success = FALSE
       /\ response.pages_crawled = 0
       /\ response.data.kind = "None"
       /\ response.error # NoneVal
       /\ extract_calls = 0
       /\ payload = NoneVal

\* C3 witness: the crawler returned results and none of them was usable
C3_Witness ==
    /\ Done
    /\ crawl_outcome.kind = "list"
    /\ Len(crawl_outcome.results) = MaxResults
    /\ pages_data = <<>>
    /\ IsEnvelope

\* C4 as stated: a crawl call that raises ends the request with an envelope
\* success=false, pages_crawled=0, error set, never with a fault.
C4_CrawlFailureEnvelope ==
    (Done /\ CrawlRaised)
    => /\ IsEnvelope
       /\ response.success = FALSE
       /\ response.pages_crawled = 0
       /\ response.error # NoneVal

\* C4 amended: a crawl call that raises is caught at the call site and ends
\* the request with an HTTP fault, status 400 for a ValueError and 500 for
\* any other exception, with a detail message; no envelope is returned and
\* generate_content is not called.
C4_CrawlFailureFault ==
    (Done /\ CrawlRaised)
    => /\ response.kind = "fault"
       /\ response.status_code =
             (IF crawl_outcome.exc = "ValueError" THEN 400 ELSE 500)
       /\ response.detail \in {"Invalid URL", "Crawling failed"}
       /\ extract_calls = 0
       /\ pages_data = <<>>

\* C4 witness: crawler.arun was called and raised
C4_Witness ==
    /\ Done
    /\ CrawlRaised
    /\ crawl_calls = 1
    /\ crawl_outcome.exc = "Exception"

\* C10: within one request crawler.arun is invoked at most once and
\* generate_content at most once, and exactly once each as soon as the
\* request has reached the extraction step, whatever the two calls do.
C10_NoRetry ==
    /\ crawl_calls <= 1
    /\ extract_calls <= 1
    /\ (pc = "extracting" \/ extract_outcome.kind # "none")
          => (crawl_calls = 1 /\ extract_calls = 1)

\* C10 witness: the request ended after a generate_content call that raised
C10_Witness ==
    /\ Done
    /\ extract_outcome.kind = "raised"
    /\ crawl_calls = 1
    /\ extract_calls = 1

(***************************************************************************)
(* Properties of extract_clinic_data (checked under SpecExtract).          *)
(***************************************************************************)
\* the call failed: generate_content raised, or its result does not conform
ExtractionFailed ==
    \/ ext_outcome.kind = "raised"
    \/ /\ ext_outcome.kind = "response"
       /\ response_parsed(ext_outcome.text).kind # "ClinicData"

\* C9: a call of extract_clinic_data with a client always ends by returning
\* a ClinicData record, never by raising, whatever generate_content does;
\* when the call failed the record has every field at its default.
C9_NeverFailsVisibly ==
    (ext_pc = "ended" /\ ext_client.kind = "client")
    => /\ ext_result.kind = "returned"
       /\ ext_result.value.kind = "ClinicData"
       /\ ExtractionFailed =>
             \A f \in ClinicDataFields :
                ext_result.value.fields[f] = ClinicDataDefault(f)

\* the seed URLs that are not of the form http(s)://host[:port][/path]
InvalidSeedUrls ==
    { <<"n","o","t","-","a","-","u","r","l">>,
      <<"f","t","p",":","/","/","c","l","i","n","i","c",".","c","o","m">>,
      <<"h","t","t","p","s",":","/","/","c","l","i","n","i","c",".",
        "e","x","a","m","p","l","e">>,
      <<"h","t","t","p","s",":","/","/","c","l","i","n","i","c",".",
        "c","o","m","/","a"," ","b">>,
      <<"h","t","t","p",":","/","/","/","x">> }

\* C11: a request with a syntactically invalid seed URL ends at once with a
\* client error (status 4xx, not 5xx), and the crawl collaborator is never
\* called for it: its call count stays zero and no crawl outcome exists.
C11_InvalidUrlNoCrawl ==
    request.url \in InvalidSeedUrls
    => /\ Done
       /\ response.kind = "fault"
       /\ response.status_code \in 400..499
       /\ crawl_calls = 0
       /\ crawl_outcome = NoOutcome

C11_Witness ==
    /\ Done
    /\ request.url = <<"n","o","t","-","a","-","u","r","l">>
    /\ response = HTTPException(422, "Invalid URL format")
    /\ crawl_calls = 0
    /\ api_key = "key"
    /\ crawler_passed

ConfigurationError == HTTPException(500, "Gemini API configuration error")

ClientNotConfigurable == api_key = NoneVal \/ api_key = ""

\* C12: when the API key is missing, every request ends without a call of
\* the crawl collaborator; a request that entered the handler ends with the
\* configuration fault, and that fault is given for no other reason.
C12_EagerConfigurationCheck ==
    /\ (ClientNotConfigurable /\ request # NoRequest)
       => /\ Done
          /\ crawl_calls = 0
          /\ crawl_outcome = NoOutcome
          /\ response.kind = "fault"
          /\ request.url \notin InvalidSeedUrls
             => response = ConfigurationError
    /\ (Done /\ response = ConfigurationError) => ClientNotConfigurable

C12_Witness ==
    /\ Done
    /\ api_key = NoneVal
    /\ crawler_passed
    /\ request.url \notin InvalidSeedUrls
    /\ response = ConfigurationError
    /\ crawl_calls = 0

\* success=True goes with data and no error, success=False with an error
\* and no data
EnvelopeShape(r) ==
    IF r.success
    THEN r.data.kind # "None" /\ r.error = NoneVal
    ELSE r.data.kind = "None" /\ r.error # NoneVal

\* a record that has every attribute the handler reads (scraper.py:148-157)
RecordForRoute ==
    [kind |-> "ClinicData", fields |-> [a \in RouteReadAttrs |-> NoneVal]]

\* the ways the call of extract_clinic_data at scraper.py:129 can end for the
\* handler: it raises, or it returns a record, None, or a record with the
\* attributes the handler reads
HandlerResults ==
    { [kind |-> "raised", exc |-> "Exception"],
      [kind |-> "returned", value |-> ClinicData(<<>>)],
      [kind |-> "returned", value |-> NoneObj],
      [kind |-> "returned", value |-> RecordForRoute] }

\* C13: every envelope the handler returns has data and no error when
\* success is true, and an error and no data when success is false; the same
\* holds of every envelope the handler builds after the extraction call,
\* however that call ends.
C13_EnvelopeShape ==
    /\ IsEnvelope => EnvelopeShape(response)
    /\ pc = "extracting"
       => \A result \in HandlerResults :
             LET r == ExtractionResponse(request, pages_data, result)
             IN  r.kind = "envelope" => EnvelopeShape(r)

C13_Witness ==
    /\ Done
    /\ IsEnvelope
    /\ response.success = FALSE
    /\ response.data = NoneObj
    /\ response.error = "No content found on the website"

PassesCrawlFilter(result) ==
    /\ result.success
    /\ ~should_skip_url(result.url)
    /\ Len(strip(ResultContent(result))) >= MinCrawlContentLen

PassingResults == SelectSeq(ResultsList(crawl_outcome), PassesCrawlFilter)

\* the first n entries of s, all of them when n is 0 (no limit)
FirstN(s, n) == SubSeq(s, 1, IF n = 0 \/ Len(s) < n THEN Len(s) ELSE n)

\* the {url, content} entries made of a list of results
PagesOf(results) ==
    [i \in 1..Len(results) |->
        [url |-> results[i].url, content |-> ResultContent(results[i])]]

\* deep_crawl_website has just returned pages_data to the handler: the
\* extraction call, which leaves pages_data alone, has not ended yet
CrawlJustReturned == CrawlReturned /\ extract_outcome = NoOutcome

\* C15: what deep_crawl_website returns is, in result order, the first
\* max_pages results that pass the filter; it never has more than max_pages
\* entries, and no entry has blank content or a denylisted URL, so none is
\* empty for the aggregator.
C15_FilteredPrefix ==
    CrawlJustReturned
    => /\ pages_data = PagesOf(FirstN(PassingResults, request.max_pages))
       /\ request.max_pages # 0 => Len(pages_data) <= request.max_pages
       /\ \A i \in 1..Len(pages_data) :
             /\ ~IsEmptyPage(pages_data[i].content)
             /\ ~should_skip_url(pages_data[i].url)

\* C15 witness: a full result list whose first result is filtered out and
\* of which more pass than max_pages allows
C15_Witness ==
    /\ CrawlJustReturned
    /\ pc = "extracting"
    /\ crawl_outcome.kind = "list"
    /\ Len(crawl_outcome.results) = MaxResults
    /\ ~PassesCrawlFilter(crawl_outcome.results[1])
    /\ request.max_pages > 0
    /\ Len(PassingResults) > request.max_pages
    /\ Len(pages_data) = request.max_pages

====
